---- MODULE Spec2Model ----
(***************************************************************************)
(* Model of the site-gen content pipeline: src/src/builder.rs (Builder)    *)
(* and src/src/helpers.rs (parse_date, truncate_text).                     *)
(*                                                                         *)
(* Strings that are only compared for equality are TLA+ strings or tuples  *)
(* of strings.  Text that truncate_text works on is a sequence of UTF-8    *)
(* bytes, so that byte offsets and character boundaries are computed the   *)
(* way the Rust str API computes them.  Option<T> is <<>> for None and     *)
(* <<v>> for Some(v).                                                      *)
(***************************************************************************)
EXTENDS Integers, Sequences, FiniteSets, TLC

VARIABLES
    opts,        \* Builder.opts: [entries, truncate, url]
    files,       \* Builder.files: the directory listing, in read_dir order
    entries,     \* Builder.entries: Vec<FileEntry>
    pc,          \* position of the build: parse, sort, build_blog, chunks, rss, tags, done, failed
    pagination,  \* build_blog: the pagination list
    count,       \* build_blog: the page counter
    ci,          \* build_blog: chunks already taken from entries.chunks(..)
    ei,          \* build_blog: entries of the current chunk already written
    rss_data,    \* build_blog: rss_data
    tag_map,     \* build_blog: tag_map, a BTreeMap kept as a key-ordered sequence
    disk,        \* the fs::write calls made so far, in order
    stdout,      \* the println! lines printed so far, in order
    err,         \* the error or panic that ended the build, "" if none
    t_text,      \* truncate_text: argument text
    t_len,       \* truncate_text: argument truncate_len
    t_ret,       \* truncate_text: returned slice
    t_pc         \* truncate_text: "call" before the call, "returned" after

vars == <<opts, files, entries, pc, pagination, count, ci, ei, rss_data, tag_map,
          disk, stdout, err, t_text, t_len, t_ret, t_pc>>

buildVars == <<opts, files, entries, pc, pagination, count, ci, ei, rss_data,
               tag_map, disk, stdout, err>>

truncVars == <<t_text, t_len, t_ret, t_pc>>

(***************************************************************************)
(* Bounds of the model.                                                    *)
(***************************************************************************)
\* most files in the source directory
MaxFiles == 3
\* largest configured entries-per-page
MaxPerPage == 2
\* the configured feed truncate length, when one is configured
CfgTruncate == 3
\* most characters of a text handed to truncate_text on its own
MaxChars == 5
\* largest truncate_len handed to truncate_text on its own
MaxTruncLen == 7

None == <<>>
Some(v) == <<v>>

(***************************************************************************)
(* UTF-8 text.                                                             *)
(***************************************************************************)
\* code points used to build texts: 'a', ' ', U+00E0 (2 bytes, not
\* whitespace, second byte 0xA0), U+2003 EM SPACE (3 bytes, whitespace)
Alphabet == {97, 32, 224, 8195}

\* the UTF-8 encoding of one code point below U+10000
EncodeChar(cp) ==
    IF cp < 128 THEN <<cp>>
    ELSE IF cp < 2048 THEN <<192 + (cp \div 64), 128 + (cp % 64)>>
    ELSE <<224 + (cp \div 4096), 128 + ((cp \div 64) % 64), 128 + (cp % 64)>>

RECURSIVE Utf8(_)
Utf8(cps) ==
    IF cps = <<>> THEN <<>> ELSE EncodeChar(Head(cps)) \o Utf8(Tail(cps))

\* char::is_whitespace: the code points with the Unicode White_Space property
IsWhitespace(cp) ==
    \/ cp \in 9..13
    \/ cp \in {32, 133, 160, 5760, 8232, 8233, 8239, 8287, 12288}
    \/ cp \in 8192..8202

\* str::is_char_boundary(i), i a byte offset: 0, len, or a byte that is not
\* a continuation byte (0x80..0xBF)
IsCharBoundary(text, i) ==
    \/ i = 0
    \/ i = Len(text)
    \/ /\ i > 0
       /\ i < Len(text)
       /\ text[i + 1] \notin 128..191

\* the code point of the character that starts at byte offset i; a byte
\* sequence that is no complete character decodes to U+FFFD
DecodeAt(text, i) ==
    LET b0 == text[i + 1] IN
    IF b0 < 128 THEN b0
    ELSE IF b0 \in 192..223 /\ i + 2 <= Len(text)
    THEN (b0 - 192) * 64 + (text[i + 2] - 128)
    ELSE IF b0 \in 224..239 /\ i + 3 <= Len(text)
    THEN (b0 - 224) * 4096 + (text[i + 2] - 128) * 64 + (text[i + 3] - 128)
    ELSE 65533

\* &text[a..b] as a byte sequence
Slice(text, a, b) == SubSeq(text, a + 1, b)

\* a variant of StrGet that indexes bytes without checking boundaries
StrGetBytes(text, a, b) ==
    IF b <= Len(text) THEN Some(Slice(text, a, b)) ELSE None

\* str::get(a..b): None unless a <= b <= len and both are char boundaries
StrGet(text, a, b) ==
    IF a <= b /\ b <= Len(text) /\ IsCharBoundary(text, a) /\ IsCharBoundary(text, b)
    THEN Some(Slice(text, a, b))
    ELSE None

\* s.parse::<char>() of a one-byte slice: the char with that code
ParseChar(s) == s[1]

\* byte offsets at which a whitespace character starts
WsStarts(text) ==
    {i \in 0..(Len(text) - 1) :
        IsCharBoundary(text, i) /\ IsWhitespace(DecodeAt(text, i))}

Max(S) == CHOOSE x \in S : \A y \in S : y <= x
Min(S) == CHOOSE x \in S : \A y \in S : x <= y

\* str::rfind(char::is_whitespace)
RFindWs(text) == IF WsStarts(text) = {} THEN None ELSE Some(Max(WsStarts(text)))

\* str::find(char::is_whitespace)
FindWs(text) == IF WsStarts(text) = {} THEN None ELSE Some(Min(WsStarts(text)))

\* helpers.rs 49-54: step back to a char boundary
RECURSIVE BoundaryDown(_, _)
BoundaryDown(text, ws) ==
    IF IsCharBoundary(text, ws) THEN ws ELSE BoundaryDown(text, ws - 1)

\* helpers.rs 62-67: step forward to a char boundary
RECURSIVE BoundaryUp(_, _)
BoundaryUp(text, ws) ==
    IF IsCharBoundary(text, ws) THEN ws ELSE BoundaryUp(text, ws + 1)

\* helpers.rs truncate_text
TruncateText(text, truncate_len) ==
    IF Len(text) < truncate_len THEN text
    ELSE
      LET got == StrGet(text, truncate_len, truncate_len + 1) IN
      IF got = None THEN text
      ELSE
        LET c == ParseChar(got[1]) IN
        IF IsWhitespace(c) THEN Slice(text, 0, truncate_len)
        ELSE
          LET before  == Slice(text, 0, truncate_len)
              after   == Slice(text, truncate_len, Len(text))
              rf      == RFindWs(before)
              ff      == FindWs(after)
              prev_ws == IF rf = None THEN 0 ELSE BoundaryDown(text, rf[1])
              next_ws == IF ff = None THEN Len(text)
                         ELSE BoundaryUp(text, truncate_len + ff[1])
          IN IF next_ws > prev_ws
             THEN Slice(text, 0, prev_ws)
             ELSE Slice(text, 0, next_ws)

(***************************************************************************)
(* truncate_text on its own: any text, any truncate_len.                   *)
(***************************************************************************)
RECURSIVE SeqsUpTo(_, _)
SeqsUpTo(S, n) ==
    IF n = 0 THEN {<<>>}
    ELSE LET shorter == SeqsUpTo(S, n - 1)
         IN shorter \cup {Append(s, x) : s \in {t \in shorter : Len(t) = n - 1}, x \in S}

Texts == {Utf8(cps) : cps \in SeqsUpTo(Alphabet, MaxChars)}

(***************************************************************************)
(* Source documents.  A document is its lines up to the body, each line    *)
(* already split at the first ' ' into key and value (builder.rs 300-302), *)
(* and the plain text the markdown and strip_tags collaborators give for   *)
(* it.  A date value is <<"rfc3339", local, offset>> when it is an RFC     *)
(* 3339 timestamp and any other tuple when it is not.  A tags value is the *)
(* comma-separated pieces, each with its padding; tags are numbered in     *)
(* lexicographic order (1 = "a", 2 = "b", 3 = "c").                        *)
(***************************************************************************)
Delim == [key |-> "---", value |-> <<>>]
DateLine(v) == [key |-> "date:", value |-> v]
TitleLine(v) == [key |-> "title:", value |-> v]
TagsLine(v) == [key |-> "tags:", value |-> v]
DescLine(v) == [key |-> "description:", value |-> v]
BodyLine == [key |-> "Some", value |-> <<>>]
Piece(pad, tag) == [pad |-> pad, tag |-> tag]

\* the files the source directory may hold; a path is an index into it
SourceDir == <<
    [name |-> <<"a", ".md">>,
     lines |-> <<Delim, DateLine(<<"rfc3339", 3, 0>>), TitleLine("T1"),
                 TagsLine(<<Piece("", 1), Piece(" ", 2)>>), Delim, BodyLine>>,
     plain |-> Utf8(<<97, 97, 32, 97, 32, 97, 97>>)],
    [name |-> <<"b", ".md">>,
     lines |-> <<Delim, TitleLine("T2"), DateLine(<<"rfc3339", 3, 1>>),
                 TagsLine(<<Piece("", 1)>>), DescLine(Utf8(<<97, 32, 97>>)), Delim,
                 TitleLine("body")>>,
     plain |-> Utf8(<<97, 8195, 97, 97, 32, 97>>)],
    [name |-> <<"c", ".md">>,
     lines |-> <<Delim, DateLine(<<"rfc3339", 2, 0>>), TitleLine("T3"),
                 TagsLine(<<Piece(" ", 3)>>), Delim>>,
     plain |-> Utf8(<<97, 224, 97, 32, 97>>)],
    [name |-> <<"a", ".html">>,
     lines |-> <<Delim, DateLine(<<"yesterday">>), TitleLine("T4"), Delim>>,
     plain |-> Utf8(<<97, 97>>)],
    [name |-> <<"d", ".md">>,
     lines |-> <<Delim, TitleLine("T5"), TagsLine(<<Piece("", 2), Piece("", 2)>>),
                 Delim, DateLine(<<"rfc3339", 1, 0>>)>>,
     plain |-> Utf8(<<97, 97, 97, 97>>)],
    [name |-> <<"e", ".md">>,
     lines |-> <<Delim, DateLine(<<"rfc3339", 1, 0>>), Delim, TitleLine("T6")>>,
     plain |-> <<>>]
>>

Paths == 1..Len(SourceDir)

\* fs::read_to_string and the file name of a path
ReadFile(path) == SourceDir[path]

\* the directory listings read_dir may give: distinct files, in any order
Listings ==
    {s \in SeqsUpTo(Paths, MaxFiles) : \A i, j \in 1..Len(s) : i # j => s[i] # s[j]}

\* the instants Local::now() may give
NowValues == {0, 4}

\* the configured base URL: <<scheme, host>>, "" for a missing part
Urls == {None, Some(<<"", "example.com">>), Some(<<"mailto", "">>),
         Some(<<"https", "example.com">>)}

(***************************************************************************)
(* helpers.rs parse_date and builder.rs parse_entry.                       *)
(***************************************************************************)
\* DateTime::parse_from_rfc3339: the instant and the offset, or an error
ParseFromRfc3339(date) ==
    IF date[1] = "rfc3339"
    THEN [ok |-> TRUE, d |-> [utc |-> date[2] - date[3], off |-> date[3]]]
    ELSE [ok |-> FALSE, d |-> [utc |-> 0, off |-> 0]]

\* a println! line: its format string and what it interpolates
Msg(fmt, file, value, title) ==
    [fmt |-> fmt, file |-> file, value |-> value, title |-> title]

\* helpers.rs parse_date: the date and the lines it prints
parse_date(date, now) ==
    LET r == ParseFromRfc3339(date) IN
    IF r.ok THEN [d |-> r.d, out |-> <<>>]
    ELSE [d |-> [utc |-> now, off |-> 0],
          out |-> <<Msg("Unable to parse {} as a date", None, Some(date), None)>>]

RECURSIVE TrimPieces(_)
\* builder.rs 309-312: split(',') and trim each piece
TrimPieces(pieces) ==
    IF pieces = <<>> THEN <<>> ELSE <<Head(pieces).tag>> \o TrimPieces(Tail(pieces))

\* builder.rs 304-327: the match on one preamble line
MatchLine(line, acc, now) ==
    CASE line.key = "date:" ->
           LET r == parse_date(line.value, now)
           IN [acc EXCEPT !.pub_date = r.d, !.out = @ \o r.out]
      [] line.key = "tags:" -> [acc EXCEPT !.tag_list = TrimPieces(line.value)]
      [] line.key = "title:" -> [acc EXCEPT !.title = line.value]
      [] line.key = "description:" -> [acc EXCEPT !.description = Some(line.value)]
      [] OTHER -> acc

RECURSIVE ScanLines(_, _, _, _)
\* builder.rs 291-328: the loop over the lines, up to the second delimiter
ScanLines(lines, sep_count, acc, now) ==
    IF lines = <<>> THEN acc
    ELSE LET line == Head(lines)
             sc == IF line.key = "---" THEN sep_count + 1 ELSE sep_count
         IN IF line.key = "---" /\ sc = 2 THEN acc
            ELSE ScanLines(Tail(lines), sc, MatchLine(line, acc, now), now)

RECURSIVE ReplaceMd(_)
\* builder.rs 333: String::replace(".md", ".html") on the file name
ReplaceMd(name) ==
    IF name = <<>> THEN <<>>
    ELSE <<IF Head(name) = ".md" THEN ".html" ELSE Head(name)>> \o ReplaceMd(Tail(name))

\* builder.rs parse_entry: the FileEntry and the lines printed
parse_entry(path, now) ==
    LET file == ReadFile(path)
        start == [pub_date |-> [utc |-> now, off |-> 0], tag_list |-> <<>>,
                  title |-> "", description |-> None, out |-> <<>>]
        acc == ScanLines(file.lines, 0, start, now)
    IN [entry |-> [modified |-> acc.pub_date, tags |-> acc.tag_list,
                   raw_text |-> file.plain, title |-> acc.title,
                   url |-> ReplaceMd(file.name), description |-> acc.description],
        out |-> acc.out \o <<Msg("Parsed {:?} as {}", Some(file.name), None,
                                 Some(acc.title))>>]

(***************************************************************************)
(* builder.rs build: the sort.                                             *)
(***************************************************************************)
\* a comparator that orders by ascending date
SortCmpAscending(a, b) ==
    LET bd == b.modified.utc - a.modified.utc
        ad == a.modified.utc - b.modified.utc
    IN IF ad < bd THEN "Less" ELSE IF ad = bd THEN "Equal" ELSE "Greater"

\* builder.rs 100-104: the closure handed to sort_by
SortCmp(a, b) ==
    LET bd == b.modified.utc - a.modified.utc
        ad == a.modified.utc - b.modified.utc
    IN IF bd < ad THEN "Less" ELSE IF bd = ad THEN "Equal" ELSE "Greater"

\* x placed before the first element it is Less than
Insert(sorted, x) ==
    LET before == {j \in 1..Len(sorted) : SortCmp(x, sorted[j]) = "Less"}
        at == IF before = {} THEN Len(sorted) + 1 ELSE Min(before)
    IN SubSeq(sorted, 1, at - 1) \o <<x>> \o SubSeq(sorted, at, Len(sorted))

RECURSIVE SortBy(_, _)
\* slice::sort_by, a stable sort: elements inserted in their original order
SortBy(done, rest) ==
    IF rest = <<>> THEN done ELSE SortBy(Insert(done, Head(rest)), Tail(rest))

(***************************************************************************)
(* builder.rs build_blog.                                                  *)
(***************************************************************************)
\* the program's default description length (builder.rs 171)
DefaultTruncate == 300

\* url::Url::parse and Url::host: an error without a scheme, no host
\* without an authority
UrlParse(u) ==
    IF u[1] = "" THEN [ok |-> FALSE, host |-> None]
    ELSE [ok |-> TRUE, host |-> IF u[2] = "" THEN None ELSE Some(u[2])]

\* builder.rs 122-131: one element of the pagination list
PaginationItem(index) ==
    IF index = 0
    THEN [name |-> <<"home">>, url |-> <<"index", ".html">>]
    ELSE [name |-> <<"page ", ToString(index)>>,
          url |-> <<"index", ToString(index), ".html">>]

\* builder.rs 114-133: the pagination list; num_entries is a u8
Pagination(n, num_per_page) ==
    LET num_entries == n % 256 IN
    IF num_entries > num_per_page
    THEN LET q == num_entries \div num_per_page
             num_pages == IF num_entries % num_per_page > 0 THEN q + 1 ELSE q
         IN [i \in 1..num_pages |-> PaginationItem(i - 1)]
    ELSE <<>>

\* slice::chunks_exact: the short last chunk is left out
ChunksExact(s, n) ==
    [k \in 1..(Len(s) \div n) |-> SubSeq(s, (k - 1) * n + 1, k * n)]

\* builder.rs 155: slice::chunks(n), n > 0
Chunks(s, n) ==
    [k \in 1..((Len(s) + n - 1) \div n) |->
        SubSeq(s, (k - 1) * n + 1, IF k * n < Len(s) THEN k * n ELSE Len(s))]

\* every entry counts as one of the latest posts
IsLatestAlways(c) == TRUE

\* builder.rs 180: the entry is one of the latest posts
IsLatest(c) == c = 0

\* builder.rs 158-162: entry_text.  builder.rs takes truncate_text from the
\* crate truncate_string_at_whitespace; helpers.rs holds the function and is
\* what is used here.
EntryText(entry, truncate) ==
    IF truncate # None THEN TruncateText(entry.raw_text, truncate[1])
    ELSE entry.raw_text

\* builder.rs 163-173: post_data, without the rendered html and the images;
\* modified.format(DATE_FORMAT) shows the local time of the entry's offset
PostData(entry) ==
    [title |-> entry.title, tags |-> entry.tags, url |-> entry.url,
     modified |-> entry.modified.utc + entry.modified.off,
     description |-> IF entry.description # None THEN entry.description[1]
                     ELSE TruncateText(entry.raw_text, DefaultTruncate)]

\* builder.rs 181-192: the feed entry
RssEntry(entry, truncate) ==
    [title |-> entry.title, description |-> EntryText(entry, truncate),
     modified |-> entry.modified, url |-> entry.url]

\* builder.rs 197-201: tag_entry
TagEntry(entry, tag) == [url |-> entry.url, title |-> entry.title, tag |-> tag]

\* an insert that appends the new key instead of keeping the keys ordered
TagMapPushUnordered(map, tag, ref) ==
    IF \E i \in 1..Len(map) : map[i].key = tag
    THEN [i \in 1..Len(map) |->
            IF map[i].key = tag THEN [map[i] EXCEPT !.refs = Append(@, ref)] ELSE map[i]]
    ELSE Append(map, [key |-> tag, refs |-> <<ref>>])

\* builder.rs 202-207: BTreeMap get_mut and push, or insert in key order
TagMapPush(map, tag, ref) ==
    IF \E i \in 1..Len(map) : map[i].key = tag
    THEN [i \in 1..Len(map) |->
            IF map[i].key = tag THEN [map[i] EXCEPT !.refs = Append(@, ref)] ELSE map[i]]
    ELSE LET smaller == {i \in 1..Len(map) : map[i].key < tag}
             at == Cardinality(smaller)
         IN SubSeq(map, 1, at) \o <<[key |-> tag, refs |-> <<ref>>]>>
            \o SubSeq(map, at + 1, Len(map))

RECURSIVE FoldTags(_, _, _)
\* builder.rs 196-208: the loop over the entry's tags
FoldTags(map, entry, tags) ==
    IF tags = <<>> THEN map
    ELSE FoldTags(TagMapPush(map, Head(tags), TagEntry(entry, Head(tags))), entry,
                  Tail(tags))

\* builder.rs 212-225: one element of the index page's contents
IndexEntry(entry) ==
    [title |-> entry.title, tags |-> entry.tags, url |-> entry.url,
     modified |-> entry.modified.utc + entry.modified.off]

\* builder.rs 237-241: index_fn
IndexFn(c) ==
    IF c = 0 THEN <<"index", ".html">> ELSE <<"index", ToString(c), ".html">>

Write(path, template, data) == [path |-> path, template |-> template, data |-> data]

(***************************************************************************)
(* The build: Builder::new, then build, step by step.                      *)
(***************************************************************************)
TruncIdle == /\ t_text = <<>> /\ t_len = 0 /\ t_ret = <<>> /\ t_pc = "idle"

\* builder.rs 55-92, Builder::new: the options, the listing, no entries
Init ==
    /\ opts \in [entries : 0..MaxPerPage,
                 truncate : {None, Some(CfgTruncate)},
                 url : Urls]
    /\ files \in Listings
    /\ entries = <<>>
    /\ pc = "parse"
    /\ pagination = <<>>
    /\ count = 0
    /\ ci = 0
    /\ ei = 0
    /\ rss_data = <<>>
    /\ tag_map = <<>>
    /\ disk = <<>>
    /\ stdout = <<>>
    /\ err = ""
    /\ TruncIdle

\* builder.rs 95-98: one turn of the loop over the files; now is what
\* Local::now() gives during the call
ParseEntry ==
    /\ pc = "parse"
    /\ Len(entries) < Len(files)
    /\ \E now \in NowValues :
         LET r == parse_entry(files[Len(entries) + 1], now)
         IN /\ entries' = Append(entries, r.entry)
            /\ stdout' = stdout \o r.out
    /\ UNCHANGED <<opts, files, pc, pagination, count, ci, ei, rss_data, tag_map,
                   disk, err, truncVars>>

\* builder.rs 100-104: the sort, once every file is parsed
SortEntries ==
    /\ pc = "parse"
    /\ Len(entries) = Len(files)
    /\ entries' = SortBy(<<>>, entries)
    /\ pc' = "build_blog"
    /\ UNCHANGED <<opts, files, pagination, count, ci, ei, rss_data, tag_map, disk,
                   stdout, err, truncVars>>

\* build_blog without the checks of the base URL before its loop
StartErrorUrlUnchecked ==
    IF opts.entries = 0 THEN "panic: chunk size must be non-zero" ELSE ""

\* what ends build_blog before its loop, "" if nothing does: the division
\* by zero of line 117, the errors of lines 147-153, the panic of chunks(0)
StartError ==
    IF opts.entries = 0 /\ Len(entries) % 256 > 0 THEN "panic: divide by zero"
    ELSE IF opts.url = None THEN "MissingValue(url)"
    ELSE IF ~UrlParse(opts.url[1]).ok THEN "url::ParseError"
    ELSE IF UrlParse(opts.url[1]).host = None THEN "BadURL"
    ELSE IF opts.entries = 0 THEN "panic: chunk size must be non-zero"
    ELSE ""

\* builder.rs 110-153: build_blog up to its loop
BuildBlogStart ==
    /\ pc = "build_blog"
    /\ StartError = ""
    /\ pagination' = Pagination(Len(entries), opts.entries)
    /\ pc' = "chunks"
    /\ UNCHANGED <<opts, files, entries, count, ci, ei, rss_data, tag_map, disk,
                   stdout, err, truncVars>>

\* builder.rs 110-155: build_blog ends with an error or a panic
BuildBlogFail ==
    /\ pc = "build_blog"
    /\ StartError # ""
    /\ err' = StartError
    /\ pc' = "failed"
    /\ UNCHANGED <<opts, files, entries, pagination, count, ci, ei, rss_data,
                   tag_map, disk, stdout, truncVars>>

\* builder.rs 157-209: one entry of the current chunk
WriteEntryPage ==
    /\ pc = "chunks"
    /\ ci < Len(Chunks(entries, opts.entries))
    /\ ei < Len(Chunks(entries, opts.entries)[ci + 1])
    /\ LET entry == Chunks(entries, opts.entries)[ci + 1][ei + 1]
       IN /\ stdout' = Append(stdout, Msg("Writing {} to {:?}", Some(entry.url), None,
                                          Some(entry.title)))
          /\ disk' = Append(disk, Write(entry.url, "entry", PostData(entry)))
          /\ rss_data' = IF IsLatest(count)
                         THEN Append(rss_data, RssEntry(entry, opts.truncate))
                         ELSE rss_data
          /\ tag_map' = FoldTags(tag_map, entry, entry.tags)
    /\ ei' = ei + 1
    /\ UNCHANGED <<opts, files, entries, pc, pagination, count, ci, err, truncVars>>

\* builder.rs 211-247: the index page of the current chunk
WriteIndexPage ==
    /\ pc = "chunks"
    /\ ci < Len(Chunks(entries, opts.entries))
    /\ ei = Len(Chunks(entries, opts.entries)[ci + 1])
    /\ LET entry_set == Chunks(entries, opts.entries)[ci + 1]
           page_data == [contents |-> [i \in 1..Len(entry_set) |-> IndexEntry(entry_set[i])],
                         pagination |-> pagination]
       IN /\ stdout' = Append(stdout, Msg("Writing page {} to {:?}", Some(IndexFn(count)),
                                          None, None))
          /\ disk' = Append(disk, Write(IndexFn(count), "index", page_data))
    /\ count' = count + 1
    /\ ci' = ci + 1
    /\ ei' = 0
    /\ UNCHANGED <<opts, files, entries, pc, pagination, rss_data, tag_map, err,
                   truncVars>>

\* builder.rs 250-265: the feed
WriteFeed ==
    /\ pc = "chunks"
    /\ ci = Len(Chunks(entries, opts.entries))
    /\ stdout' = Append(stdout, Msg("Writing RSS feed to {:?}", Some(<<"index", ".rss">>),
                                    None, None))
    /\ disk' = Append(disk, Write(<<"index", ".rss">>, "atom", [entries |-> rss_data]))
    /\ pc' = "tags"
    /\ UNCHANGED <<opts, files, entries, pagination, count, ci, ei, rss_data, tag_map,
                   err, truncVars>>

\* builder.rs 267-274: the tag list
WriteTags ==
    /\ pc = "tags"
    /\ stdout' = Append(stdout, Msg("Writing tags to {:?}", Some(<<"tags", ".html">>),
                                    None, None))
    /\ disk' = Append(disk, Write(<<"tags", ".html">>, "tag-list", [tags |-> tag_map]))
    /\ pc' = "done"
    /\ UNCHANGED <<opts, files, entries, pagination, count, ci, ei, rss_data, tag_map,
                   err, truncVars>>

Next ==
    \/ ParseEntry
    \/ SortEntries
    \/ BuildBlogStart
    \/ BuildBlogFail
    \/ WriteEntryPage
    \/ WriteIndexPage
    \/ WriteFeed
    \/ WriteTags

Spec == Init /\ [][Next]_vars

(***************************************************************************)
(* truncate_text called on its own.                                        *)
(***************************************************************************)
BuildIdle ==
    /\ opts = [entries |-> 1, truncate |-> None, url |-> None]
    /\ files = <<>>
    /\ entries = <<>>
    /\ pc = "idle"
    /\ pagination = <<>>
    /\ count = 0
    /\ ci = 0
    /\ ei = 0
    /\ rss_data = <<>>
    /\ tag_map = <<>>
    /\ disk = <<>>
    /\ stdout = <<>>
    /\ err = ""

InitTrunc ==
    /\ BuildIdle
    /\ t_text \in Texts
    /\ t_len \in 0..MaxTruncLen
    /\ t_ret = <<>>
    /\ t_pc = "call"

\* helpers.rs 32-83: the call returns
CallTruncateText ==
    /\ t_pc = "call"
    /\ t_ret' = TruncateText(t_text, t_len)
    /\ t_pc' = "returned"
    /\ UNCHANGED <<t_text, t_len, buildVars>>

NextTrunc == CallTruncateText

SpecTrunc == InitTrunc /\ [][NextTrunc]_vars

(***************************************************************************)
(* Properties.                                                             *)
(***************************************************************************)
IndexWrites == SelectSeq(disk, LAMBDA w : w.template = "index")
FeedWrites == SelectSeq(disk, LAMBDA w : w.template = "atom")
TagWrites == SelectSeq(disk, LAMBDA w : w.template = "tag-list")
Sorted == pc \in {"build_blog", "chunks", "tags", "done", "failed"}
Paginated == pc \in {"tags", "done"}
CeilDiv(n, p) == (n + p - 1) \div p
Least(a, b) == IF a < b THEN a ELSE b

\* C1: once build() has sorted the entries, every adjacent pair (a, b) of
\* the sequence build_blog paginates has a.createdAt >= b.createdAt, for
\* every directory listing and load order.
C1_SortedDescending ==
    Sorted =>
        \A i \in 1..(Len(entries) - 1) :
            entries[i].modified.utc >= entries[i + 1].modified.utc

\* a finished build of three entries whose first entry is not the first
\* file loaded
C1_Witness ==
    /\ pc = "done"
    /\ Len(entries) >= 3
    /\ entries[1].url # ReplaceMd(ReadFile(files[1]).name)
    /\ entries[1].modified.utc > entries[Len(entries)].modified.utc

\* C2: for N entries and page size P >= 1 build_blog writes exactly
\* ceil(N/P) index files, page 0 to index.html and page k > 0 to
\* index{k}.html, and page k lists the sorted entries at positions
\* k*P .. min((k+1)*P, N)-1.
C2_IndexPages ==
    Paginated =>
        LET N == Len(entries)
            P == opts.entries
        IN /\ P >= 1
           /\ Len(IndexWrites) = CeilDiv(N, P)
           /\ \A k \in 0..(Len(IndexWrites) - 1) :
                LET w == IndexWrites[k + 1]
                    last == Least((k + 1) * P, N)
                IN /\ w.path = IF k = 0 THEN <<"index", ".html">>
                                ELSE <<"index", ToString(k), ".html">>
                   /\ Len(w.data.contents) = last - k * P
                   /\ \A i \in 1..(last - k * P) :
                        /\ w.data.contents[i].url = entries[k * P + i].url
                        /\ w.data.contents[i].title = entries[k * P + i].title
                        /\ w.data.contents[i].tags = entries[k * P + i].tags

\* a finished build of three entries, two to a page: a full page and a
\* shorter last page
C2_Witness ==
    /\ pc = "done"
    /\ Len(entries) = 3
    /\ opts.entries = 2
    /\ Len(IndexWrites) = 2

\* C3: for N >= 1 the pagination list handed to each index page has one
\* element per index page written, element 0 {home, index.html} and element
\* i > 0 {page i, index{i}.html}, element i's url being page i's file name.
C3_PaginationPerPage ==
    (pc = "done" /\ Len(entries) >= 1) =>
        \A j \in 1..Len(IndexWrites) :
            LET pg == IndexWrites[j].data.pagination
            IN /\ Len(pg) = Len(IndexWrites)
               /\ \A i \in 0..(Len(pg) - 1) :
                    /\ pg[i + 1].name = IF i = 0 THEN <<"home">>
                                        ELSE <<"page ", ToString(i)>>
                    /\ pg[i + 1].url = IndexWrites[i + 1].path

\* C4: the feed written to index.rss holds exactly the entries of page 0 in
\* sorted order: the first min(N, P) sorted entries and none of a later page.
C4_FeedIsFirstPage ==
    Paginated =>
        /\ Len(FeedWrites) = 1
        /\ FeedWrites[1].path = <<"index", ".rss">>
        /\ LET fe == FeedWrites[1].data.entries
           IN /\ Len(fe) = Least(Len(entries), opts.entries)
              /\ \A i \in 1..Len(fe) :
                   /\ fe[i].url = entries[i].url
                   /\ fe[i].title = entries[i].title
                   /\ fe[i].modified = entries[i].modified

\* a finished build with more entries than fit on page 0
C4_Witness ==
    /\ pc = "done"
    /\ Len(entries) > opts.entries
    /\ Len(FeedWrites) = 1
    /\ Len(FeedWrites[1].data.entries) = opts.entries

\* C5: a feed entry's description is the author's description when there is
\* one, else truncate(plainText, L), L the configured truncate length or 300.
C5_FeedDescription ==
    Paginated =>
        LET fe == FeedWrites[1].data.entries
            L == IF opts.truncate # None THEN opts.truncate[1] ELSE 300
        IN \A i \in 1..Len(fe) :
             fe[i].description =
                 IF entries[i].description # None THEN entries[i].description[1]
                 ELSE TruncateText(entries[i].raw_text, L)

RECURSIVE AllTagRefs(_)
\* one reference per occurrence of a tag, in entry order
AllTagRefs(es) ==
    IF es = <<>> THEN <<>>
    ELSE [i \in 1..Len(Head(es).tags) |->
            [url |-> Head(es).url, title |-> Head(es).title, tag |-> Head(es).tags[i]]]
         \o AllTagRefs(Tail(es))

\* C6: the tag index rendered to tags.html has exactly the tags of the
\* entries as keys, in ascending order, and under each tag one reference per
\* occurrence of the tag, in the order of the fully sorted entries.
C6_TagIndex ==
    pc = "done" =>
        /\ Len(TagWrites) = 1
        /\ TagWrites[1].path = <<"tags", ".html">>
        /\ LET tm == TagWrites[1].data.tags
               refs == AllTagRefs(entries)
           IN /\ \A i \in 1..(Len(tm) - 1) : tm[i].key < tm[i + 1].key
              /\ {tm[i].key : i \in 1..Len(tm)} = {refs[i].tag : i \in 1..Len(refs)}
              /\ \A i \in 1..Len(tm) :
                   tm[i].refs = SelectSeq(refs, LAMBDA r : r.tag = tm[i].key)

\* a finished build whose tag index has two references under a, one under
\* b and one under c
C6_Witness ==
    /\ pc = "done"
    /\ Len(TagWrites) = 1
    /\ LET tm == TagWrites[1].data.tags
       IN /\ Len(tm) = 3
          /\ <<tm[1].key, tm[2].key, tm[3].key>> = <<1, 2, 3>>
          /\ <<Len(tm[1].refs), Len(tm[2].refs), Len(tm[3].refs)>> = <<2, 1, 1>>

\* C7: for text longer than maxLen truncate_text cuts at maxLen when the
\* character there is whitespace, and otherwise at whichever of the nearest
\* whitespace before and the nearest whitespace after is closer to maxLen,
\* the one before on a tie.
C7_NearestWhitespace ==
    (t_pc = "returned" /\ Len(t_text) > t_len /\ IsCharBoundary(t_text, t_len)) =>
        LET before == {i \in WsStarts(t_text) : i < t_len}
            after == {i \in WsStarts(t_text) : i > t_len}
        IN IF IsWhitespace(DecodeAt(t_text, t_len))
           THEN t_ret = Slice(t_text, 0, t_len)
           ELSE (before # {} /\ after # {}) =>
                  t_ret = Slice(t_text, 0,
                                IF t_len - Max(before) <= Min(after) - t_len
                                THEN Max(before) ELSE Min(after))

\* C8: truncate_text returns a prefix of the text that ends on a character
\* boundary: the returned bytes are themselves well-formed UTF-8.
C8_CharBoundary ==
    t_pc = "returned" =>
        /\ Len(t_ret) <= Len(t_text)
        /\ t_ret = SubSeq(t_text, 1, Len(t_ret))
        /\ t_ret \in Texts

\* a call that shortens a text in which a multi-byte character ends at
\* truncate_len
C8_Witness ==
    /\ t_pc = "returned"
    /\ Len(t_ret) < Len(t_text)
    /\ t_len >= 1
    /\ t_len < Len(t_text)
    /\ t_text[t_len] \in 128..191

\* the lines before the second delimiter
PreambleLines(lines) ==
    LET delims == {i \in 1..Len(lines) : lines[i].key = "---"}
        second == IF Cardinality(delims) >= 2 THEN Min(delims \ {Min(delims)})
                  ELSE Len(lines) + 1
    IN SubSeq(lines, 1, second - 1)

HasField(path, key) ==
    \E i \in 1..Len(PreambleLines(ReadFile(path).lines)) :
        PreambleLines(ReadFile(path).lines)[i].key = key

\* C9: a document whose preamble has no date field or no title field fails
\* with MissingField, and no Entry is produced for it.
C9_MissingField ==
    \A i \in 1..Len(files) :
        (~HasField(files[i], "date:") \/ ~HasField(files[i], "title:")) =>
            \A j \in 1..Len(entries) :
                entries[j].url # ReplaceMd(ReadFile(files[i]).name)

\* the date values of the preamble that are not a timestamp
BadDates(path) ==
    LET pre == PreambleLines(ReadFile(path).lines)
    IN {pre[i].value : i \in {k \in 1..Len(pre) :
                                 pre[k].key = "date:" /\ pre[k].value[1] # "rfc3339"}}

\* C10: when a date value does not parse, the entry fails or a warning that
\* names both the file and the invalid value is printed; the current time is
\* never substituted without such a warning.
C10_DateWarning ==
    \A i \in 1..Len(entries) :
        \A v \in BadDates(files[i]) :
            \E m \in 1..Len(stdout) :
                /\ stdout[m].file = Some(ReadFile(files[i]).name)
                /\ stdout[m].value = Some(v)

\* the configured base URL is there, parses and has a host
BaseUrlUsable ==
    /\ opts.url # None
    /\ opts.url[1][1] # ""
    /\ opts.url[1][2] # ""

\* C11: when the base URL is absent, unparseable or has no host, the build
\* fails before any output file is written: no write to the destination
\* directory is made, and the build never gets past the base-URL check.
C11_NoWriteBeforeUrlCheck ==
    ~BaseUrlUsable =>
        /\ disk = <<>>
        /\ pc \in {"parse", "build_blog", "failed"}

\* a build of at least one entry that failed on a base URL without a host,
\* with nothing written
C11_Witness ==
    /\ pc = "failed"
    /\ err = "BadURL"
    /\ Len(entries) >= 1
    /\ opts.entries >= 1
    /\ disk = <<>>

\* C12: in every build that completes the urls of the entries are pairwise
\* distinct: two source files that derive the same url make the build fail
\* instead of writing both entries to the same output path.
C12_UniqueUrls ==
    pc = "done" =>
        /\ \A i, j \in 1..Len(entries) : i # j => entries[i].url # entries[j].url
        /\ \A m, n \in 1..Len(disk) : m # n => disk[m].path # disk[n].path

====
